---- MODULE Spec2Model ----
(***************************************************************************)
(* Model of the eshop order service's transactional layer: the command and *)
(* query handlers (src/src/cqrs.rs), the Unit of Work (src/src/uow.rs),    *)
(* the MongoDB cart repository (src/src/repositories.rs) and the RabbitMQ  *)
(* publisher (src/src/events.rs).                                          *)
(*                                                                         *)
(* Each handler invocation is a process that advances from one await point *)
(* to the next.  The two tokio mutexes (client_session, events_to_publish) *)
(* are modelled by their owner.  A Rust panic (an unwrap() on an Err) ends *)
(* the invocation with result "Panic"; stack unwinding drops the guards,   *)
(* and tokio mutexes are not poisoned.                                     *)
(***************************************************************************)
EXTENDS Integers, Sequences, FiniteSets, TLC

\* ------------------------------------------------------------------ bounds
MaxOps == 2          \* handler invocations started in one behaviour
MaxTime == 1         \* values SystemTime::now() can return
MaxSeqOps == 6       \* invocations of one caller that awaits each before the next
MaxLiveOps == 2      \* invocations started where progress is checked

\* ------------------------------------------------------------------ values
Procs == {"h1", "h2"}
NoProc == "none"
CartIds == {"c1", "c2"}
Products == {"p1", "p2"}
CommandProducts == {"p1"}     \* the product the commands of a behaviour name
Empty == ""
Times == 1..MaxTime

PRODUCT_ADDED_TO_CART_QUEUE_NAME == "product.added.to.cart"
PRODUCT_REMOVED_FROM_CART_QUEUE_NAME == "product.removed.from.cart"

\* domain.rs Cart: products is a HashMap, modelled as a function whose
\* domain is the set of keys.
NoProducts == [p \in {} |-> 0]
NewCartHoldsProduct(id, now) ==
  [id |-> id, products |-> [p \in {"p1"} |-> 1], created_at_utc |-> now,
   updated_at_utc |-> now, version |-> 0]
NewCart(id, now) ==
  [id |-> id, products |-> NoProducts, created_at_utc |-> now,
   updated_at_utc |-> now, version |-> 0]
NoCart == [id |-> Empty, products |-> NoProducts, created_at_utc |-> 0,
           updated_at_utc |-> 0, version |-> 0]

\* events.rs Event: a tagged union of two variants.
ProductAddedToCartEvent(p) == [variant |-> "ProductAddedToCartEvent", product_id |-> p]
ProductRemovedFromCartEvent(p) == [variant |-> "ProductRemovedFromCartEvent", product_id |-> p]

\* The cart collection outlives the process: at start-up it is empty or
\* holds a cart written by an earlier run.
StoredAtStart ==
  {[c \in {} |-> NoCart]} \cup
  {[c \in {"c1"} |-> [NewCart("c1", 1) EXCEPT !.products = ps]] :
     ps \in {NoProducts, [p \in {"p1"} |-> 1],
             [p \in {"p1", "p2"} |-> IF p = "p1" THEN 2 ELSE 1]}}

NoCmd == [kind |-> "None", cart_id |-> Empty, product_id |-> Empty]

VARIABLES
  carts,          \* documents of the cart store, as a read returns them: id -> Cart
  lastCommitted,  \* history: the documents as of the last committed write
  txnState,       \* ClientSession transaction state
  txnWrites,      \* documents written under the open transaction: id -> Cart
  txnOwner,       \* history: the invocation whose begin_transaction opened it
  sessionLock,    \* owner of the client_session mutex
  events,         \* events_to_publish: Vec<Event>
  eventsLock,     \* owner of the events_to_publish mutex
  pc,             \* position of each handler invocation
  cmd,            \* its input
  response,       \* the carts of its GetCartsResponse
  found,          \* its local Cart value (found_cart / domain_cart)
  to_publish,     \* the queue commit iterates: its content when the lock was taken
  event_results,  \* commit's local Vec of publish results
  txn_result,     \* history: outcome of its commit_transaction call
  commit_result,  \* what uow.commit() returned to it
  result,         \* what handle() returned to its caller
  published,      \* history: every publish_message call, in order
  lastWriter,     \* history: whose transaction last committed a cart
  started,        \* number of invocations started
  trace           \* history: the commands of a sequential caller, in order

vars == <<carts, lastCommitted, txnState, txnWrites, txnOwner, sessionLock, events, eventsLock,
          pc, cmd, response, found, to_publish, event_results, txn_result, commit_result,
          result, published, lastWriter, started, trace>>

store == <<carts, lastCommitted, txnState, txnWrites, txnOwner, sessionLock, lastWriter>>
queue == <<events, eventsLock, published>>
locals == <<cmd, response, found, to_publish, event_results, txn_result, commit_result, result>>

Init ==
  /\ carts \in StoredAtStart
  /\ lastCommitted = carts
  /\ txnState = "None"
  /\ txnWrites = [c \in {} |-> NoCart]
  /\ txnOwner = NoProc
  /\ sessionLock = NoProc
  /\ events = <<>>
  /\ eventsLock = NoProc
  /\ pc = [h \in Procs |-> "idle"]
  /\ cmd = [h \in Procs |-> NoCmd]
  /\ response = [h \in Procs |-> <<>>]
  /\ found = [h \in Procs |-> NoCart]
  /\ to_publish = [h \in Procs |-> <<>>]
  /\ event_results = [h \in Procs |-> <<>>]
  /\ txn_result = [h \in Procs |-> "none"]
  /\ commit_result = [h \in Procs |-> "none"]
  /\ result = [h \in Procs |-> "none"]
  /\ published = <<>>
  /\ lastWriter = [c \in CartIds |-> NoProc]
  /\ started = 0
  /\ trace = <<>>

\* ------------------------------------------------------------ pure helpers
HasProduct(cart, p) == p \in DOMAIN cart.products

AddMutateInsertsOne(cart, p) ==
  [cart EXCEPT !.products =
     [q \in DOMAIN cart.products \cup {p} |-> IF q = p THEN 1 ELSE cart.products[q]]]

\* An Add that keeps only the entry it writes.
AddMutateDropsOthers(cart, p) ==
  [cart EXCEPT !.products =
     [q \in {p} |-> IF HasProduct(cart, p) THEN cart.products[p] + 1 ELSE 1]]

\* cqrs.rs AddProductToCart: insert(product_id, quantity + 1), or insert 1.
AddMutate(cart, p) ==
  [cart EXCEPT !.products =
     [q \in DOMAIN cart.products \cup {p} |->
        IF q = p
          THEN (IF HasProduct(cart, p) THEN cart.products[p] + 1 ELSE 1)
          ELSE cart.products[q]]]

RemoveMutateKeepsEntry(cart, p) ==
  [cart EXCEPT !.products = [@ EXCEPT ![p] = @ - 1]]

\* cqrs.rs RemoveProductFromCart: retain(k != product_id) on quantity 1,
\* insert(product_id, quantity - 1) otherwise.  Only called when the key exists.
RemoveMutate(cart, p) ==
  IF cart.products[p] = 1
    THEN [cart EXCEPT !.products = [q \in DOMAIN cart.products \ {p} |-> cart.products[q]]]
    ELSE [cart EXCEPT !.products = [@ EXCEPT ![p] = @ - 1]]

DestinationAlwaysAdded(e) == PRODUCT_ADDED_TO_CART_QUEUE_NAME

\* events.rs publish_message: destination chosen by the variant alone.
Destination(e) ==
  IF e.variant = "ProductAddedToCartEvent"
    THEN PRODUCT_ADDED_TO_CART_QUEUE_NAME
    ELSE PRODUCT_REMOVED_FROM_CART_QUEUE_NAME

StagedEventSwapped(c) ==
  IF c.kind = "Add"
    THEN ProductRemovedFromCartEvent(c.product_id)
    ELSE ProductAddedToCartEvent(c.product_id)

\* The event a handler stages after a successful update.
StagedEvent(c) ==
  IF c.kind = "Add"
    THEN ProductAddedToCartEvent(c.product_id)
    ELSE ProductRemovedFromCartEvent(c.product_id)

\* What a read inside the session sees: the committed documents overlaid
\* with the writes of the open transaction.
SessionView(committed, writes) ==
  [c \in DOMAIN committed \cup DOMAIN writes |->
     IF c \in DOMAIN writes THEN writes[c] ELSE committed[c]]

\* An update whose filter matches no document.
ReplaceOneMatchesNothing(docs, id, cart) == docs

\* repositories.rs update: replace_one({"id": id}, cart) replaces the whole
\* matching document (no version comparison); it matches nothing, and writes
\* nothing, when no document has the id.
ReplaceOne(docs, id, cart) ==
  IF id \in DOMAIN docs
    THEN [c \in DOMAIN docs |-> IF c = id THEN cart ELSE docs[c]]
    ELSE docs

\* repositories.rs create: insert_one(cart).
InsertOne(docs, id, cart) ==
  [c \in DOMAIN docs \cup {id} |-> IF c = id THEN cart ELSE docs[c]]

\* The repository's write: insert_one for create, replace_one for update.
WriteOne(kind, docs, id, cart) ==
  IF kind = "Create" THEN InsertOne(docs, id, cart) ELSE ReplaceOne(docs, id, cart)

\* The write set of the open transaction after one more write: the write is
\* applied to what the session sees, and the document it touched is kept.
WriteUnderTransaction(kind, committed, writes, id, cart) ==
  LET after == WriteOne(kind, SessionView(committed, writes), id, cart) IN
  [c \in DOMAIN writes \cup ({id} \cap DOMAIN after) |-> after[c]]

\* A commit that loses the writes of the transaction.
ApplyCommitDropsWrites(committed, writes) == committed

\* commit_transaction: the writes of the transaction become the committed
\* documents.
ApplyCommit(committed, writes) == SessionView(committed, writes)

\* A session that starts a transaction over the one in progress.
StartTransactionAlwaysOk(state) == TRUE

\* ClientSession::start_transaction returns an error while a transaction is
\* in progress; uow.rs begin_transaction unwraps it.
StartTransactionOk(state) == state # "InProgress"

\* A commit that never raises single_event_failed.
CommitReturnIgnoresFailures(results) == "Ok"

\* A commit that reports a failure whatever the results are.
CommitReturnAlwaysFails(results) == "Err"

\* uow.rs commit, lines 90-107: single_event_failed over the collected results.
CommitReturn(results) ==
  IF \E i \in 1..Len(results) : results[i] = "Err" THEN "Err" ELSE "Ok"

\* A commit that drops the result of commit_transaction instead of unwrapping it.
AfterCommitTransactionIgnoresError(ok) == "commit_events"

\* uow.rs commit, lines 76-83: commit_transaction().await.unwrap() before the
\* events are touched: where commit goes after the transaction commit.
AfterCommitTransaction(ok) == IF ok THEN "commit_events" ELSE "done"

\* uow.rs rollback, lines 110-119: only abort_transaction; the staged events
\* are left as they are.
EventsAfterRollback(ev) == ev

\* A commit that returns without clearing the queue.
EventsAfterCommitKeepsQueue(ev) == ev

\* uow.rs commit, line 101: lock.clear().
EventsAfterCommit(ev) == <<>>

\* What handle() returns for a result of uow.commit(): CreateCart matches on
\* it (cqrs.rs 88-96); Add and Remove unwrap it (cqrs.rs 163, 260).
HandlerAfterCommit(kind, r) ==
  IF r = "Ok" THEN "Ok"
  ELSE IF kind = "Create" THEN "ErrCommit"
  ELSE "PanicCommit"

IsPanic(r) == r \in {"PanicBegin", "PanicCommitTxn", "PanicPublish", "PanicCommit", "PanicRollback"}
IsErr(r) == r \in {"ErrValidation", "ErrFind", "ErrNotFound", "ErrUpdate", "ErrCreate", "ErrCommit"}

\* Identifiers no stored or in-flight cart uses (uuid v4 is unique).
FreshIds ==
  CartIds \ (DOMAIN carts \cup DOMAIN txnWrites
             \cup {found[g].id : g \in {x \in Procs : pc[x] # "done" /\ cmd[x].kind = "Create"}})

Idle(h) == pc[h] \in {"idle", "done"}

ResetLocals(h, c, cart) ==
  /\ cmd' = [cmd EXCEPT ![h] = c]
  /\ response' = [response EXCEPT ![h] = <<>>]
  /\ found' = [found EXCEPT ![h] = cart]
  /\ to_publish' = [to_publish EXCEPT ![h] = <<>>]
  /\ event_results' = [event_results EXCEPT ![h] = <<>>]
  /\ txn_result' = [txn_result EXCEPT ![h] = "none"]
  /\ commit_result' = [commit_result EXCEPT ![h] = "none"]
  /\ started' = started + 1

GuardKept(holder) == holder

\* A MutexGuard is dropped at the end of its scope, and by the unwinding of
\* a panic: tokio mutexes are not poisoned.
GuardDropped(holder) == NoProc

Finish(h, r) ==
  /\ pc' = [pc EXCEPT ![h] = "done"]
  /\ result' = [result EXCEPT ![h] = r]

\* --------------------------------------------------------------- handlers
\* CreateCartCommandHandler::handle up to begin_transaction (cqrs.rs 67-82).
CreateCartWithin(n, h) ==
  /\ Idle(h) /\ started < n
  /\ \E id \in FreshIds, now \in Times :
       ResetLocals(h, [kind |-> "Create", cart_id |-> Empty, product_id |-> Empty],
                   NewCart(id, now))
  /\ pc' = [pc EXCEPT ![h] = "begin"]
  /\ result' = [result EXCEPT ![h] = "none"]
  /\ UNCHANGED <<store, queue>>

CreateCart(h) == CreateCartWithin(MaxOps, h) /\ UNCHANGED trace

ReadWaitsForSession(session, queue_lock) == session = NoProc

\* MongoDbCartRepository::read (repositories.rs 324-332) and the query
\* handler (cqrs.rs 308-336) take neither the client_session mutex nor the
\* events_to_publish mutex: a read runs whoever holds them.
ReadCanRun(session, queue_lock) == TRUE

EmptyCartIdOnly(cid, pid) == cid = Empty

\* The two is_empty checks that open the Add and Remove handlers.
EmptyInput(cid, pid) == cid = Empty \/ pid = Empty

\* AddProductToCartCommandHandler::handle (cqrs.rs 119-131) and
\* RemoveProductFromCartCommandHandler::handle (cqrs.rs 215-224): validation.
StartCommandWithin(n, h, kind, cid, pid) ==
  /\ Idle(h) /\ started < n
  /\ ResetLocals(h, [kind |-> kind, cart_id |-> cid, product_id |-> pid], NoCart)
  /\ IF EmptyInput(cid, pid)
       THEN Finish(h, "ErrValidation")
       ELSE /\ pc' = [pc EXCEPT ![h] = "read"]
            /\ result' = [result EXCEPT ![h] = "none"]
  /\ UNCHANGED <<store, queue>>

StartCommand(h, kind, cid, pid) ==
  StartCommandWithin(MaxOps, h, kind, cid, pid) /\ UNCHANGED trace

AddProductToCart(h) ==
  \E cid \in CartIds \cup {Empty}, pid \in CommandProducts \cup {Empty} :
    StartCommand(h, "Add", cid, pid)

RemoveProductFromCart(h) ==
  \E cid \in CartIds \cup {Empty}, pid \in CommandProducts \cup {Empty} :
    StartCommand(h, "Remove", cid, pid)

\* cqrs.rs 315-320: the response entry built from a cart.
CartResponse(cart) == [id |-> cart.id, products |-> cart.products]

GetCartsReturnsStored(input, docs) ==
  IF input = "None"
    THEN (IF DOMAIN docs = {} THEN <<>>
          ELSE <<CartResponse(docs[CHOOSE c \in DOMAIN docs : TRUE])>>)
    ELSE <<CartResponse(docs[input])>>

\* cqrs.rs 309-335: with Some(id) the one cart read, with None an empty Vec.
GetCartsResponse(input, docs) ==
  IF input = "None" THEN <<>> ELSE <<CartResponse(docs[input])>>

\* GetCartsQueryHandler::handle is called (cqrs.rs 308): the identifier is
\* Some(id), or None (an empty cart_id below).
GetCartsWithin(n, h) ==
  /\ Idle(h) /\ started < n
  /\ \E input \in CartIds \cup {Empty} :
       ResetLocals(h, [kind |-> "Get", cart_id |-> input, product_id |-> Empty], NoCart)
  /\ pc' = [pc EXCEPT ![h] = "query"]
  /\ result' = [result EXCEPT ![h] = "none"]
  /\ UNCHANGED <<store, queue>>

\* GetCartsQueryHandler::handle (cqrs.rs 309-335): one repository read, or
\* the empty answer when no identifier is given.
QueryCarts(h) ==
  /\ pc[h] = "query"
  /\ ReadCanRun(sessionLock, eventsLock)
  /\ \E ok \in BOOLEAN :
       LET input == IF cmd[h].cart_id = Empty THEN "None" ELSE cmd[h].cart_id
           read_ok == input = "None" \/ (ok /\ input \in DOMAIN carts) IN
       /\ found' = [found EXCEPT ![h] = IF read_ok /\ input # "None" THEN carts[input] ELSE NoCart]
       /\ response' = [response EXCEPT ![h] =
                         IF read_ok THEN GetCartsResponse(input, carts) ELSE <<>>]
       /\ Finish(h, IF read_ok THEN "Ok" ELSE "ErrFind")
  /\ UNCHANGED <<store, queue, cmd, to_publish, event_results, txn_result, commit_result,
                 started, trace>>

GetCarts(h) == GetCartsWithin(MaxOps, h) /\ UNCHANGED trace

FindOneOrNew(docs, id) == IF id \in DOMAIN docs THEN docs[id] ELSE NewCart(id, 1)

\* find_one by id (repositories.rs 325): the document, or None (NoCart).
FindOne(docs, id) == IF id \in DOMAIN docs THEN docs[id] ELSE NoCart

\* cart_repository.read and the in-memory mutation (cqrs.rs 133-145, 226-241;
\* repositories.rs 324-332): no session, so the committed documents.
Read(h) ==
  /\ UNCHANGED trace
  /\ pc[h] = "read"
  /\ ReadCanRun(sessionLock, eventsLock)
  /\ \E ok \in BOOLEAN :
       LET c == cmd[h]
           found_cart == FindOne(carts, c.cart_id) IN
       IF ~ok \/ found_cart = NoCart
         THEN Finish(h, "ErrFind") /\ UNCHANGED found
       ELSE IF c.kind = "Add"
         THEN /\ found' = [found EXCEPT ![h] = AddMutate(found_cart, c.product_id)]
              /\ pc' = [pc EXCEPT ![h] = "begin"]
              /\ UNCHANGED result
       ELSE IF HasProduct(found_cart, c.product_id)
         THEN /\ found' = [found EXCEPT ![h] = RemoveMutate(found_cart, c.product_id)]
              /\ pc' = [pc EXCEPT ![h] = "begin"]
              /\ UNCHANGED result
       ELSE Finish(h, "ErrNotFound") /\ UNCHANGED found
  /\ UNCHANGED <<store, queue, cmd, response, to_publish, event_results, txn_result,
                 commit_result, started>>

\* OrderUnitOfWork::begin_transaction (uow.rs 63-72).
BeginTransaction(h) ==
  /\ UNCHANGED trace
  /\ pc[h] = "begin"
  /\ sessionLock = NoProc
  /\ IF StartTransactionOk(txnState)
       THEN /\ txnState' = "InProgress"
            /\ txnWrites' = [c \in {} |-> NoCart]
            /\ txnOwner' = h
            /\ pc' = [pc EXCEPT ![h] = "repo_write"]
            /\ UNCHANGED result
       ELSE /\ Finish(h, "PanicBegin")
            /\ UNCHANGED <<txnState, txnWrites, txnOwner>>
  /\ UNCHANGED <<carts, lastCommitted, sessionLock, lastWriter, queue, cmd, response, found, to_publish,
                 event_results, txn_result, commit_result, started>>

ReturnsWithoutRollback(kind) == "done"

\* The Err arm of create / update in each handler (cqrs.rs 97-98, 170-171,
\* 265-266): uow.rollback() comes first.
AfterWriteError(kind) == "rollback"

\* MongoDbCartRepository::create / update, first half (repositories.rs
\* 294-307, 349-362): lock the session, insert_one / replace_one under it.
\* Under an open transaction the write stays in the transaction; a session
\* with no open transaction applies it at once.
RepositoryWrite(h) ==
  /\ UNCHANGED trace
  /\ pc[h] = "repo_write"
  /\ sessionLock = NoProc
  /\ \E ok \in BOOLEAN :
       LET id == found[h].id IN
       IF ok
         THEN /\ IF txnState = "InProgress"
                   THEN /\ txnWrites' = WriteUnderTransaction(cmd[h].kind, carts, txnWrites,
                                                              id, found[h])
                        /\ UNCHANGED <<carts, lastCommitted, lastWriter>>
                   ELSE /\ carts' = WriteOne(cmd[h].kind, carts, id, found[h])
                        /\ lastCommitted' = carts'
                        /\ lastWriter' = [lastWriter EXCEPT ![id] = h]
                        /\ UNCHANGED txnWrites
              /\ sessionLock' = h
              /\ pc' = [pc EXCEPT ![h] = "repo_find"]
         ELSE /\ pc' = [pc EXCEPT ![h] = AfterWriteError(cmd[h].kind)]
              /\ UNCHANGED <<carts, lastCommitted, txnWrites, sessionLock, lastWriter>>
  /\ UNCHANGED <<txnState, txnOwner, queue, locals, started>>

\* MongoDbCartRepository::create / update, second half (repositories.rs
\* 308-321, 363-376): find_one under the same guard, then the guard drops.
\* The handler goes on to stage its event (Add, Remove), to commit (Create)
\* or, on an error, to roll back.
RepositoryFind(h) ==
  /\ UNCHANGED trace
  /\ pc[h] = "repo_find"
  /\ sessionLock = h
  /\ \E ok \in BOOLEAN :
       LET view == IF txnState = "InProgress" THEN SessionView(carts, txnWrites) ELSE carts IN
       pc' = [pc EXCEPT ![h] =
                IF ok /\ found[h].id \in DOMAIN view
                  THEN (IF cmd[h].kind = "Create" THEN "commit_txn" ELSE "stage")
                  ELSE AfterWriteError(cmd[h].kind)]
  /\ sessionLock' = GuardDropped(sessionLock)
  /\ UNCHANGED <<carts, lastCommitted, txnState, txnWrites, txnOwner, lastWriter, queue, locals, started>>

\* cqrs.rs 153-160, 250-257: push the event under the events_to_publish lock.
StageEvent(h) ==
  /\ UNCHANGED trace
  /\ pc[h] = "stage"
  /\ eventsLock = NoProc
  /\ events' = Append(events, StagedEvent(cmd[h]))
  /\ pc' = [pc EXCEPT ![h] = "commit_txn"]
  /\ UNCHANGED <<store, eventsLock, published, locals, started>>

\* OrderUnitOfWork::commit, lines 76-81: commit_transaction().await.unwrap().
\* The driver marks the session Committed before it sends the command; it
\* returns an error when no transaction was started or after an abort.
CommitTransaction(h) ==
  /\ UNCHANGED trace
  /\ pc[h] = "commit_txn"
  /\ sessionLock = NoProc
  /\ \E ok \in BOOLEAN :
       LET committed == ok /\ txnState \in {"InProgress", "Committed"} IN
       /\ IF txnState = "InProgress"
            THEN /\ txnState' = "Committed"
                 /\ txnWrites' = [c \in {} |-> NoCart]
                 /\ carts' = IF ok THEN ApplyCommit(carts, txnWrites) ELSE carts
                 /\ lastCommitted' = IF ok THEN carts' ELSE lastCommitted
                 /\ lastWriter' = [c \in CartIds |->
                                     IF ok /\ c \in DOMAIN txnWrites THEN h ELSE lastWriter[c]]
            ELSE UNCHANGED <<txnState, txnWrites, carts, lastCommitted, lastWriter>>
       /\ txn_result' = [txn_result EXCEPT ![h] = IF committed THEN "ok" ELSE "failed"]
       /\ pc' = [pc EXCEPT ![h] = AfterCommitTransaction(committed)]
       /\ result' = [result EXCEPT ![h] =
                       IF AfterCommitTransaction(committed) = "done" THEN "PanicCommitTxn" ELSE @]
  /\ UNCHANGED <<txnOwner, sessionLock, queue, cmd, response, found, to_publish, event_results,
                 commit_result, started>>

\* OrderUnitOfWork::commit, lines 83-84: take the events lock.
CommitLockEvents(h) ==
  /\ UNCHANGED trace
  /\ pc[h] = "commit_events"
  /\ eventsLock = NoProc
  /\ eventsLock' = h
  /\ to_publish' = [to_publish EXCEPT ![h] = events]
  /\ event_results' = [event_results EXCEPT ![h] = <<>>]
  /\ pc' = [pc EXCEPT ![h] = "publish"]
  /\ UNCHANGED <<store, events, published, cmd, response, found, txn_result, commit_result, result, started>>

\* OrderUnitOfWork::commit, lines 85-88: one publish_message call of the loop.
\* events.rs 113-148: Ok or Err from the send; get_channel (events.rs 81-108)
\* unwraps the channel set-up calls, so a set-up failure panics, and the
\* unwinding drops the events guard with the queue as it was.
PublishMessage(h) ==
  /\ UNCHANGED trace
  /\ pc[h] = "publish"
  /\ eventsLock = h
  /\ Len(event_results[h]) < Len(events)
  /\ \E outcome \in {"Ok", "Err", "Panic"} :
       LET e == events[Len(event_results[h]) + 1] IN
       /\ published' = Append(published,
                              [event |-> e, destination |-> Destination(e),
                               outcome |-> outcome, by |-> h])
       /\ IF outcome = "Panic"
            THEN /\ eventsLock' = GuardDropped(eventsLock)
                 /\ Finish(h, "PanicPublish")
                 /\ UNCHANGED event_results
            ELSE /\ event_results' = [event_results EXCEPT ![h] = Append(@, outcome)]
                 /\ UNCHANGED <<eventsLock, pc, result>>
  /\ UNCHANGED <<store, events, cmd, response, found, to_publish, txn_result, commit_result, started>>

\* OrderUnitOfWork::commit, lines 90-107, and the handler's use of the result
\* (cqrs.rs 88-96, 163-168, 260-263).
CommitFinish(h) ==
  /\ UNCHANGED trace
  /\ pc[h] = "publish"
  /\ eventsLock = h
  /\ Len(event_results[h]) = Len(events)
  /\ events' = EventsAfterCommit(events)
  /\ eventsLock' = GuardDropped(eventsLock)
  /\ commit_result' = [commit_result EXCEPT ![h] = CommitReturn(event_results[h])]
  /\ Finish(h, HandlerAfterCommit(cmd[h].kind, CommitReturn(event_results[h])))
  /\ UNCHANGED <<store, published, cmd, response, found, to_publish, event_results, txn_result, started>>

AbortKeepsWrites(writes) == writes

\* abort_transaction: the writes made under the transaction are discarded.
AbortTransaction(writes) == [c \in {} |-> NoCart]

\* OrderUnitOfWork::rollback (uow.rs 110-119) and the handler's error return
\* (cqrs.rs 97-101, 170-183, 265-278).  abort_transaction returns an error,
\* which rollback unwraps, unless a transaction is in progress.
Rollback(h) ==
  /\ UNCHANGED trace
  /\ pc[h] = "rollback"
  /\ sessionLock = NoProc
  /\ IF txnState = "InProgress"
       THEN /\ txnState' = "Aborted"
            /\ txnWrites' = AbortTransaction(txnWrites)
            /\ Finish(h, IF cmd[h].kind = "Create" THEN "ErrCreate" ELSE "ErrUpdate")
       ELSE /\ Finish(h, "PanicRollback")
            /\ UNCHANGED <<txnState, txnWrites>>
  /\ events' = EventsAfterRollback(events)
  /\ UNCHANGED <<carts, lastCommitted, txnOwner, sessionLock, lastWriter, eventsLock, published,
                 cmd, response, found, to_publish, event_results, txn_result, commit_result, started>>

\* One step of a handler invocation after its start.
Step(h) ==
  \/ QueryCarts(h)
  \/ Read(h)
  \/ BeginTransaction(h)
  \/ RepositoryWrite(h)
  \/ RepositoryFind(h)
  \/ StageEvent(h)
  \/ CommitTransaction(h)
  \/ CommitLockEvents(h)
  \/ PublishMessage(h)
  \/ CommitFinish(h)
  \/ Rollback(h)

\* A single caller that awaits each response and goes on while its calls
\* succeed: the commands it has issued are recorded in trace.
Caller == "h1"

TraceEntry(c, cart) ==
  [kind |-> c.kind, cart_id |-> IF c.kind = "Create" THEN cart.id ELSE c.cart_id,
   product_id |-> c.product_id]

SeqCommand ==
  /\ result[Caller] \in {"none", "Ok"}
  /\ \/ CreateCartWithin(MaxSeqOps, Caller)
     \/ \E cid \in CartIds \cup {Empty}, pid \in CommandProducts \cup {Empty} :
          StartCommandWithin(MaxSeqOps, Caller, "Add", cid, pid)
     \/ \E cid \in CartIds \cup {Empty}, pid \in CommandProducts \cup {Empty} :
          StartCommandWithin(MaxSeqOps, Caller, "Remove", cid, pid)
  /\ trace' = Append(trace, TraceEntry(cmd'[Caller], found'[Caller]))

SeqQuery ==
  /\ result[Caller] \in {"none", "Ok"}
  /\ GetCartsWithin(MaxSeqOps, Caller)
  /\ UNCHANGED trace

NextSeq == SeqCommand \/ SeqQuery \/ Step(Caller)

SpecSeq == Init /\ [][NextSeq]_vars

\* HashMap::insert (repositories.rs 145, 178): the key is set, new or not.
HashMapInsert(docs, id, cart) ==
  [c \in DOMAIN docs \cup {id} |-> IF c = id THEN cart ELSE docs[c]]

\* InMemoryCartRepository::create / update (repositories.rs 138-150,
\* 171-183): the session argument is ignored; the cart is inserted into the
\* map under the map's lock and read back, which always succeeds.
InMemoryWrite(h) ==
  /\ pc[h] = "repo_write"
  /\ carts' = HashMapInsert(carts, found[h].id, found[h])
  /\ lastCommitted' = IF txnState = "InProgress" THEN lastCommitted ELSE carts'
  /\ lastWriter' = [lastWriter EXCEPT ![found[h].id] = h]
  /\ pc' = [pc EXCEPT ![h] = IF cmd[h].kind = "Create" THEN "commit_txn" ELSE "stage"]
  /\ UNCHANGED <<txnState, txnWrites, txnOwner, sessionLock, queue, locals, started, trace>>

\* The unit of work built over InMemoryCartRepository::new(): the map starts
\* empty, and create / update never return Err, so rollback is never called.
InitInMemory == Init /\ carts = [c \in {} |-> NoCart]

NextInMemory ==
  \E h \in Procs :
    \/ CreateCart(h)
    \/ AddProductToCart(h)
    \/ RemoveProductFromCart(h)
    \/ GetCarts(h)
    \/ QueryCarts(h)
    \/ Read(h)
    \/ BeginTransaction(h)
    \/ InMemoryWrite(h)
    \/ StageEvent(h)
    \/ CommitTransaction(h)
    \/ CommitLockEvents(h)
    \/ PublishMessage(h)
    \/ CommitFinish(h)

SpecInMemory == InitInMemory /\ [][NextInMemory]_vars

Next ==
  \E h \in Procs :
    \/ CreateCart(h)
    \/ AddProductToCart(h)
    \/ RemoveProductFromCart(h)
    \/ GetCarts(h)
    \/ QueryCarts(h)
    \/ Read(h)
    \/ BeginTransaction(h)
    \/ RepositoryWrite(h)
    \/ RepositoryFind(h)
    \/ StageEvent(h)
    \/ CommitTransaction(h)
    \/ CommitLockEvents(h)
    \/ PublishMessage(h)
    \/ CommitFinish(h)
    \/ Rollback(h)

Spec == Init /\ [][Next]_vars

\* The tokio runtime polls every spawned request task that can make
\* progress, and its mutexes hand the lock to waiters in turn: a handler
\* whose next step is possible eventually takes it.
\* Only the commands that take a lock matter for progress: creations and
\* updates of the stored cart.
LiveCommand(h) ==
  /\ \/ CreateCartWithin(MaxLiveOps, h)
     \/ \E kind \in {"Add", "Remove"}, pid \in CommandProducts :
          StartCommandWithin(MaxLiveOps, h, kind, "c1", pid)
  /\ UNCHANGED trace

\* The steps of a command handler; the query handler takes no lock.
LiveStep(h) ==
  \/ Read(h)
  \/ BeginTransaction(h)
  \/ RepositoryWrite(h)
  \/ RepositoryFind(h)
  \/ StageEvent(h)
  \/ CommitTransaction(h)
  \/ CommitLockEvents(h)
  \/ PublishMessage(h)
  \/ CommitFinish(h)
  \/ Rollback(h)

\* The collection at start-up: one cart holding one unit of p1.
StoredAtStartLive ==
  [c \in {"c1"} |-> [NewCart("c1", 1) EXCEPT !.products = [p \in {"p1"} |-> 1]]]

InitLive ==
  /\ Init
  /\ carts = StoredAtStartLive

NextLive == \E h \in Procs : LiveCommand(h) \/ LiveStep(h)

SpecLive == InitLive /\ [][NextLive]_vars /\ \A h \in Procs : WF_vars(LiveStep(h))

\* ------------------------------------------------------------------ claims
\* Publish calls this invocation's commit has made so far: those that
\* returned, and the one that panicked.
Attempts(h) == Len(event_results[h]) + (IF result[h] = "PanicPublish" THEN 1 ELSE 0)

\* C1: uow.commit() returns Ok only if the transaction committed and every
\* event of the staged queue was published with Ok; a commit that returns
\* after a publish call returned an error returns an error.
C1_CommitOkOnlyIfAllPublished ==
  \A h \in Procs :
    /\ commit_result[h] = "Ok" =>
         /\ txn_result[h] = "ok"
         /\ Len(event_results[h]) = Len(to_publish[h])
         /\ \A i \in 1..Len(event_results[h]) : event_results[h][i] = "Ok"
    /\ (commit_result[h] # "none"
        /\ \E i \in 1..Len(event_results[h]) : event_results[h][i] = "Err")
         => commit_result[h] = "Err"

\* A commit of two staged events, the second of which failed, returned Err.
C1_Witness ==
  \E h \in Procs :
    /\ commit_result[h] = "Err"
    /\ event_results[h] = <<"Ok", "Err">>

\* C2: once the transaction has committed with K events in the queue, the
\* commit call makes exactly K publish attempts, whatever attempts fail.
C2_ExactlyKAttempts ==
  \A h \in Procs :
    (txn_result[h] = "ok" /\ pc[h] = "done") => Attempts(h) = Len(to_publish[h])

\* C3: after the transaction commit, publish failures leave the written cart
\* in the store: until another transaction commits the cart, a read returns
\* the document this handler wrote.
C3_UpdateDurableDespitePublishFailure ==
  \A h \in Procs :
    (/\ cmd[h].kind \in {"Add", "Remove"}
     /\ txn_result[h] = "ok"
     /\ lastWriter[cmd[h].cart_id] = h)
      => /\ cmd[h].cart_id \in DOMAIN carts
         /\ carts[cmd[h].cart_id] = found[h]

\* An Add whose commit returned Err (a publish failed) and whose product map
\* is the stored one.
C3_Witness ==
  \E h \in Procs :
    /\ cmd[h].kind = "Add"
    /\ commit_result[h] = "Err"
    /\ lastWriter[cmd[h].cart_id] = h
    /\ carts[cmd[h].cart_id].products = found[h].products
    /\ HasProduct(carts[cmd[h].cart_id], cmd[h].product_id)

\* C4: a commit call makes no publish attempt, and does not reach the event
\* queue, unless its transaction commit has succeeded.
C4_NoPublishBeforeTransactionCommit ==
  \A h \in Procs :
    txn_result[h] # "ok" =>
      /\ Attempts(h) = 0
      /\ pc[h] \notin {"commit_events", "publish"}
      /\ commit_result[h] = "none"

\* A commit whose transaction commit failed while its event was staged: the
\* event was not published.
C4_Witness ==
  \E h \in Procs :
    /\ txn_result[h] = "failed"
    /\ Len(events) > 0
    /\ published = <<>>
\* C5: every rollback call leaves the staged-event queue empty.
C5_RollbackDiscardsStagedEvents ==
  [][\A h \in Procs : (pc[h] = "rollback" /\ pc'[h] = "done") => events' = <<>>]_vars

\* C6: a handler that calls begin_transaction while a transaction is active
\* waits (it neither fails nor starts a second transaction), and at most one
\* handler is between begin and commit.
C6_BeginBlocksWhileTransactionActive ==
  [][\A h \in Procs :
       (pc[h] = "begin" /\ txnState = "InProgress") => pc'[h] = "begin"]_vars

\* C7: begin_transaction from Idle (no transaction, or the last one committed
\* or aborted) makes a transaction active; begin_transaction while one is
\* active fails and leaves it as it is; a successful commit and a rollback end
\* the active transaction; nothing else changes the transaction state.
C7_UnitOfWorkStateMachine ==
  [][/\ \A h \in Procs :
          /\ (pc[h] = "begin" /\ pc'[h] # "begin") =>
               IF txnState = "InProgress"
                 THEN /\ result'[h] = "PanicBegin"
                      /\ txnState' = "InProgress"
                      /\ txnOwner' = txnOwner
                 ELSE /\ pc'[h] = "repo_write"
                      /\ txnState' = "InProgress"
                      /\ txnOwner' = h
          /\ (pc[h] = "commit_txn" /\ txn_result'[h] = "ok") =>
               (txnState = "InProgress" /\ txnState' = "Committed")
          /\ (pc[h] = "rollback" /\ pc'[h] = "done") =>
               (txnState = "InProgress" /\ txnState' = "Aborted")
     /\ txnState' # txnState =>
          \E h \in Procs : pc[h] \in {"begin", "commit_txn", "rollback"} /\ pc'[h] # pc[h]
    ]_vars

\* A handler has begun a transaction after another handler's transaction was
\* committed.
C7_Witness ==
  \E h, g \in Procs :
    /\ h # g
    /\ pc[h] = "repo_write"
    /\ txnState = "InProgress"
    /\ txnOwner = h
    /\ txn_result[g] = "ok"

\* C8: an Add or Remove whose commit returned the publish failure returns an
\* error result to its caller, and the cart it wrote is still stored.
C8_HandlerReportsPartialFailure ==
  \A h \in Procs :
    (cmd[h].kind \in {"Add", "Remove"} /\ commit_result[h] = "Err") =>
      /\ IsErr(result[h])
      /\ lastWriter[cmd[h].cart_id] = h => carts[cmd[h].cart_id] = found[h]

\* C9: what commit returns tells the three outcomes apart: Err is returned
\* exactly for a committed transaction with a failed publish, Ok for a
\* committed transaction with none, and a commit whose transaction did not
\* commit returns neither (it panics).
C9_CommitOutcomesDistinguishable ==
  \A h \in Procs :
    /\ commit_result[h] = "Err" =>
         (txn_result[h] = "ok" /\ \E i \in 1..Len(event_results[h]) : event_results[h][i] = "Err")
    /\ commit_result[h] = "Ok" =>
         (txn_result[h] = "ok" /\ \A i \in 1..Len(event_results[h]) : event_results[h][i] # "Err")
    /\ txn_result[h] = "failed" =>
         (commit_result[h] = "none" /\ result[h] = "PanicCommitTxn")

\* One commit returned the publish failure, another's transaction commit failed.
C9_Witness ==
  \E h, g \in Procs :
    /\ commit_result[h] = "Err"
    /\ txn_result[h] = "ok"
    /\ txn_result[g] = "failed"

\* C10: two Adds of one product to one cart that both read the cart without
\* the product both write quantity 1, and when both have returned Ok the
\* stored quantity is 1.
C10_LostIncrement ==
  \A h, g \in Procs :
    (/\ h # g
     /\ cmd[h].kind = "Add" /\ cmd[g].kind = "Add"
     /\ cmd[h].cart_id = cmd[g].cart_id /\ cmd[h].product_id = cmd[g].product_id
     /\ result[h] = "Ok" /\ result[g] = "Ok"
     /\ pc[h] = "done" /\ pc[g] = "done"
     /\ found[h].products[cmd[h].product_id] = 1
     /\ found[g].products[cmd[g].product_id] = 1)
      => /\ HasProduct(carts[cmd[h].cart_id], cmd[h].product_id)
         /\ carts[cmd[h].cart_id].products[cmd[h].product_id] = 1

\* Two Adds on the same cart and product have both returned Ok, both wrote
\* quantity 1, and the stored quantity is 1.
C10_Witness ==
  \E h, g \in Procs :
    /\ h # g
    /\ cmd[h].kind = "Add" /\ cmd[g].kind = "Add"
    /\ cmd[h].cart_id = cmd[g].cart_id /\ cmd[h].product_id = cmd[g].product_id
    /\ result[h] = "Ok" /\ result[g] = "Ok"
    /\ pc[h] = "done" /\ pc[g] = "done"
    /\ found[h].products[cmd[h].product_id] = 1
    /\ found[g].products[cmd[g].product_id] = 1
    /\ carts[cmd[h].cart_id].products[cmd[h].product_id] = 1

\* The sequential caller has finished its latest call with success.
Returned == pc[Caller] = "done" /\ result[Caller] = "Ok"

CreateEntry(c) == [kind |-> "Create", cart_id |-> c, product_id |-> Empty]
AddEntry(c, p) == [kind |-> "Add", cart_id |-> c, product_id |-> p]
RemoveEntry(c, p) == [kind |-> "Remove", cart_id |-> c, product_id |-> p]

\* The caller created cart c and has since issued only Adds of p to it.
CreateThenAdds(c, p) ==
  /\ Len(trace) >= 1
  /\ trace[1] = CreateEntry(c)
  /\ \A i \in 2..Len(trace) : trace[i] = AddEntry(c, p)

Quantity(c, p) ==
  IF c \in DOMAIN carts /\ HasProduct(carts[c], p) THEN carts[c].products[p] ELSE 0

\* The commit of an Add's transaction by the sequential caller.
AddCommits(c, p) ==
  /\ pc[Caller] = "commit_txn" /\ pc'[Caller] = "commit_events"
  /\ txn_result'[Caller] = "ok"
  /\ cmd[Caller] = AddEntry(c, p)

\* C11: a successful Add on an uncontended cart stores quantity 1 for a
\* product the cart did not hold and q + 1 for one it held with quantity q;
\* so N successive successful Adds to a newly created cart leave quantity N.
C11_AddIncrementsByOne ==
  /\ [](\A c \in CartIds, p \in CommandProducts :
         Returned /\ CreateThenAdds(c, p) =>
           /\ c \in DOMAIN carts
           /\ Quantity(c, p) = Len(trace) - 1
           /\ DOMAIN carts[c].products = IF Len(trace) = 1 THEN {} ELSE {p})
  /\ [][\A c \in CartIds, p \in CommandProducts :
         AddCommits(c, p) => Quantity(c, p)' = Quantity(c, p) + 1]_vars

C11_Witness ==
  /\ Returned /\ CreateThenAdds("c2", "p1") /\ Len(trace) = 4
  /\ Quantity("c2", "p1") = 3

\* The commit of a Remove's transaction by the sequential caller.
RemoveCommits(c, p) ==
  /\ pc[Caller] = "commit_txn" /\ pc'[Caller] = "commit_events"
  /\ txn_result'[Caller] = "ok"
  /\ cmd[Caller] = RemoveEntry(c, p)

\* The read of a Remove finds the cart without the product.
RemoveFindsNoEntry(c, p) ==
  /\ pc[Caller] = "read" /\ cmd[Caller] = RemoveEntry(c, p)
  /\ c \in DOMAIN carts /\ ~HasProduct(carts[c], p)
  /\ result'[Caller] # "ErrFind"

\* Create, Add, Add, Remove, Remove, Remove on one cart and one product, and
\* the product map stored after each of the first five.
Scenario(c, p) ==
  <<CreateEntry(c), AddEntry(c, p), AddEntry(c, p),
    RemoveEntry(c, p), RemoveEntry(c, p), RemoveEntry(c, p)>>

ScenarioProducts(p) ==
  <<NoProducts, [q \in {p} |-> 1], [q \in {p} |-> 2], [q \in {p} |-> 1], NoProducts>>

\* C12: a successful Remove deletes an entry of quantity 1 and lowers a
\* larger quantity by one; a Remove of a product the cart does not hold
\* returns the not-found error without beginning a transaction, staging an
\* event or changing the store.  Create, Add, Add, Remove, Remove, Remove
\* stores {}, {p:1}, {p:2}, {p:1}, {} and then fails leaving {}.
C12_RemoveDecrementsOrDeletes ==
  /\ [][\A c \in CartIds, p \in CommandProducts :
         /\ RemoveCommits(c, p) =>
              Quantity(c, p)' = Quantity(c, p) - 1 /\ Quantity(c, p) >= 1
              /\ (Quantity(c, p) = 1 => ~HasProduct(carts'[c], p))
         /\ RemoveFindsNoEntry(c, p) =>
              /\ pc'[Caller] = "done" /\ result'[Caller] = "ErrNotFound"
              /\ UNCHANGED <<store, queue>>]_vars
  /\ [](\A c \in CartIds, p \in CommandProducts, k \in 1..5 :
         Returned /\ trace = SubSeq(Scenario(c, p), 1, k) =>
           c \in DOMAIN carts /\ carts[c].products = ScenarioProducts(p)[k])
  /\ [](\A c \in CartIds, p \in CommandProducts :
         trace = Scenario(c, p) =>
           /\ pc[Caller] \in {"read", "done"}
           /\ pc[Caller] = "done" => result[Caller] \in {"ErrNotFound", "ErrFind"}
           /\ carts[c].products = NoProducts
           /\ txnState # "InProgress" /\ events = <<>>)

C12_Witness ==
  /\ trace = Scenario("c2", "p1")
  /\ pc[Caller] = "done" /\ result[Caller] = "ErrNotFound"
  /\ carts["c2"].products = NoProducts

AllPositive(docs) ==
  \A c \in DOMAIN docs : \A p \in DOMAIN docs[c].products : docs[c].products[p] >= 1

\* C13: in every reachable state, whatever the interleaving of handlers,
\* every quantity stored in a cart's product map is at least 1 (a product
\* whose quantity would reach 0 has no entry).
C13_StoredQuantitiesPositive == AllPositive(carts) /\ AllPositive(txnWrites)

\* A Remove has committed the deletion of an entry while the other
\* invocation was working on the same cart.
C13_Witness ==
  \E h \in Procs : \E g \in Procs \ {h} :
    /\ cmd[h].kind = "Remove" /\ pc[h] = "done" /\ result[h] = "Ok"
    /\ lastWriter[cmd[h].cart_id] = h
    /\ ~HasProduct(carts[cmd[h].cart_id], cmd[h].product_id)
    /\ cmd[g].kind = "Add" /\ cmd[g].cart_id = cmd[h].cart_id
    /\ pc[g] \in {"begin", "repo_write"}

\* Invocation h starts in this step, as an Add or a Remove.
StartsCommand(h) ==
  /\ Idle(h) /\ started' = started + 1
  /\ cmd'[h].kind \in {"Add", "Remove"}
  /\ \A g \in Procs \ {h} : pc'[g] = pc[g] /\ cmd'[g] = cmd[g]

\* C14: an Add or Remove whose cart_id or product_id is empty fails with
\* the validation error before any side effect: it reads and updates no
\* cart, begins no transaction, stages and publishes no event, and leaves
\* the store and the unit of work as they were.
C14_ValidationBeforeSideEffects ==
  [][\A h \in Procs :
       StartsCommand(h) /\ (cmd'[h].cart_id = Empty \/ cmd'[h].product_id = Empty) =>
         /\ pc'[h] = "done" /\ result'[h] = "ErrValidation"
         /\ found'[h] = NoCart
         /\ UNCHANGED <<store, queue>>]_vars

\* A Remove with an empty product_id was rejected while the other
\* invocation held an open transaction and an event was staged.
C14_Witness ==
  \E h \in Procs :
    /\ pc[h] = "done" /\ result[h] = "ErrValidation"
    /\ cmd[h].kind = "Remove" /\ cmd[h].cart_id # Empty /\ cmd[h].product_id = Empty
    /\ txnState = "InProgress" /\ txnOwner # h /\ events # <<>>

\* The read of invocation h returns in this step.
ReadReturns(h) == pc[h] = "read" /\ pc'[h] # "read"

\* C15: an Add or Remove naming a cart id that is not in the store fails
\* with the not-found error and has no side effect: no transaction is
\* begun, no cart is created or changed, no event is staged or published.
C15_UnknownCartNoSideEffects ==
  [][\A h \in Procs :
       ReadReturns(h) /\ cmd[h].cart_id \notin DOMAIN carts =>
         /\ pc'[h] = "done" /\ result'[h] = "ErrFind"
         /\ cmd[h].cart_id \notin DOMAIN carts'
         /\ UNCHANGED <<store, queue>>]_vars

\* An Add failed on a cart id that the other invocation's open transaction
\* is creating.
C15_Witness ==
  \E h \in Procs :
    /\ pc[h] = "done" /\ result[h] = "ErrFind" /\ cmd[h].kind = "Add"
    /\ cmd[h].cart_id \notin DOMAIN carts
    /\ txnState = "InProgress" /\ txnOwner # h
    /\ cmd[h].cart_id \in DOMAIN txnWrites

\* The create or update call of invocation h returns an error in this step.
WriteFails(h) == pc[h] \in {"repo_write", "repo_find"} /\ pc'[h] = "rollback"

\* Invocation h returns its create or update error in this step.
ReturnsWriteError(h) == pc[h] = "rollback" /\ pc'[h] = "done"

NoWrites == [c \in {} |-> NoCart]

\* C16: when a repository create or update inside a handler's transaction
\* fails, the handler rolls back before it returns the error: at the return
\* the transaction it opened is no longer active, the failed write is in
\* neither the committed documents nor a pending write set, and the
\* invocation has staged and published no event.
C16_RollbackOnWriteFailure ==
  /\ [][\A h \in Procs :
         /\ (pc[h] \in {"begin", "repo_write", "repo_find"} /\ pc'[h] # pc[h]) =>
              UNCHANGED <<carts, queue>>
         /\ WriteFails(h) =>
              txnState = "InProgress" /\ txnOwner = h /\ UNCHANGED <<txnState, txnOwner>>
         /\ ReturnsWriteError(h) =>
              /\ txnState = "InProgress" /\ txnOwner = h
              /\ txnState' = "Aborted" /\ txnWrites' = NoWrites
              /\ result'[h] \in {"ErrCreate", "ErrUpdate"}
              /\ UNCHANGED <<carts, queue>>]_vars
  /\ [](\A h \in Procs :
         pc[h] = "done" /\ result[h] \in {"ErrCreate", "ErrUpdate"} =>
           ~(txnState = "InProgress" /\ txnOwner = h))

\* An Add whose update failed has rolled back and returned: the store does
\* not hold the document it tried to write, and nothing is staged.
C16_Witness ==
  \E h \in Procs :
    /\ pc[h] = "done" /\ result[h] = "ErrUpdate" /\ cmd[h].kind = "Add"
    /\ txnState = "Aborted" /\ txnOwner = h /\ txnWrites = NoWrites
    /\ carts[cmd[h].cart_id] # found[h]
    /\ events = <<>> /\ published = <<>>

\* Another invocation's transaction is open while g reads.
OtherTransactionActive(g) == txnState = "InProgress" /\ txnOwner # g

\* GetCarts of g answers with a cart in this step.
QueryReturnsCart(g) ==
  /\ pc[g] = "query" /\ pc'[g] = "done"
  /\ cmd[g].cart_id # Empty /\ result'[g] = "Ok"

\* The initial read of g's Add or Remove returns a cart in this step.
ReadReturnsCart(g) == pc[g] = "read" /\ pc'[g] = "begin"

Mutated(c, cart) ==
  IF c.kind = "Add" THEN AddMutate(cart, c.product_id) ELSE RemoveMutate(cart, c.product_id)

\* C17: a repository read, and so GetCarts, that runs while another
\* invocation's transaction is active returns the cart as last committed:
\* never a document written under a transaction that has not committed.
C17_ReadsSeeCommittedOnly ==
  [][\A g \in Procs :
       /\ OtherTransactionActive(g) /\ QueryReturnsCart(g) =>
            /\ cmd[g].cart_id \in DOMAIN lastCommitted
            /\ found'[g] = lastCommitted[cmd[g].cart_id]
       /\ OtherTransactionActive(g) /\ ReadReturnsCart(g) =>
            /\ cmd[g].cart_id \in DOMAIN lastCommitted
            /\ found'[g] = Mutated(cmd[g], lastCommitted[cmd[g].cart_id])]_vars

\* C18: reads that need no transaction never wait for the session lock:
\* GetCarts and the initial read of an Add or Remove can complete in every
\* state, also while another invocation holds the session lock, has an
\* open transaction or is in the middle of commit.
C18_ReadsNeverBlocked ==
  \A h \in Procs :
    /\ pc[h] = "read" => ENABLED Read(h)
    /\ pc[h] = "query" => ENABLED QueryCarts(h)

\* GetCarts has returned the cart another invocation's transaction wrote,
\* while that invocation is still inside commit, publishing its events.
C18_Witness ==
  \E h \in Procs : \E g \in Procs \ {h} :
    /\ pc[g] = "publish" /\ eventsLock = g /\ cmd[g].kind = "Add"
    /\ lastWriter[cmd[g].cart_id] = g
    /\ pc[h] = "done" /\ result[h] = "Ok" /\ cmd[h].kind = "Get"
    /\ cmd[h].cart_id = cmd[g].cart_id
    /\ found[h] = found[g]

\* The caller's latest command is the creation of cart c.
JustCreated(c) == Len(trace) >= 1 /\ trace[Len(trace)] = CreateEntry(c)

\* C19: once CreateCart has returned identifier X with success, a read of X
\* yields a cart with id X and an empty product map; CreateCart stages (and
\* so publishes) no event.
C19_CreatedCartIsEmpty ==
  /\ [](\A c \in CartIds :
         Returned /\ JustCreated(c) =>
           /\ c \in DOMAIN carts
           /\ carts[c].id = c /\ carts[c].products = NoProducts
           /\ cmd[Caller].kind = "Get" /\ cmd[Caller].cart_id = c =>
                found[Caller].id = c /\ found[Caller].products = NoProducts)
  /\ [][cmd[Caller].kind = "Create" /\ cmd'[Caller].kind = "Create" =>
         UNCHANGED <<events, published>>]_vars

\* The caller created cart c2 and then read it with GetCarts.
C19_Witness ==
  /\ Returned /\ JustCreated("c2")
  /\ cmd[Caller].kind = "Get" /\ cmd[Caller].cart_id = "c2"
  /\ found[Caller].id = "c2" /\ found[Caller].products = NoProducts

\* GetCarts of h answers in this step.
QueryReturns(h) == pc[h] = "query" /\ pc'[h] = "done"

\* C20: GetCarts with no identifier returns a successful, empty result set
\* in every state, also when the store holds carts, and changes nothing;
\* GetCarts with identifier X returns exactly one cart, with X's stored id
\* and product map, or an error when X is not stored.
C20_GetCartsAnswers ==
  [][\A h \in Procs :
       QueryReturns(h) =>
         LET X == cmd[h].cart_id IN
         /\ UNCHANGED <<store, queue>>
         /\ X = Empty => result'[h] = "Ok" /\ response'[h] = <<>>
         /\ (X # Empty /\ X \notin DOMAIN carts) => result'[h] = "ErrFind"
         /\ (X # Empty /\ result'[h] = "Ok") =>
              /\ X \in DOMAIN carts
              /\ response'[h] = <<[id |-> carts[X].id, products |-> carts[X].products]>>]_vars

\* GetCarts without an identifier has answered with nothing while the
\* store holds a cart with products.
C20_Witness ==
  \E h \in Procs :
    /\ pc[h] = "done" /\ cmd[h].kind = "Get" /\ cmd[h].cart_id = Empty
    /\ result[h] = "Ok" /\ response[h] = <<>>
    /\ \E c \in DOMAIN carts : carts[c].products # NoProducts

\* The steps of a successful Add or Remove, in the order of the data flow:
\* read and mutate, begin, update (write, read back), stage, commit
\* (transaction, then events), return.
StepOrder ==
  <<"read", "begin", "repo_write", "repo_find", "stage", "commit_txn",
    "commit_events", "publish", "done">>

IsNextStep(from, to) ==
  \E i \in 1..(Len(StepOrder) - 1) : StepOrder[i] = from /\ StepOrder[i + 1] = to

IsUpdate(h) == cmd[h].kind \in {"Add", "Remove"}

\* The event the data flow prescribes for a command.
PrescribedEvent(c) ==
  [variant |-> IF c.kind = "Add" THEN "ProductAddedToCartEvent"
               ELSE "ProductRemovedFromCartEvent",
   product_id |-> c.product_id]

\* C21: a successful Add (Remove) goes read, mutate, begin, update, stage,
\* commit, return, in that order; it stages exactly one event, a
\* ProductAddedToCart (ProductRemovedFromCart) with the command's
\* product_id, and never before its update has succeeded.
C21_StepOrderAndOneEvent ==
  [][/\ \A h \in Procs :
          /\ (IsUpdate(h) /\ pc'[h] # pc[h] /\ ~Idle(h)) =>
               \/ IsNextStep(pc[h], pc'[h])
               \/ pc'[h] = "done" /\ result'[h] # "Ok"
               \/ pc'[h] = "rollback" /\ pc[h] \in {"repo_write", "repo_find"}
               \/ pc'[h] = "done" /\ pc[h] = "rollback"
          /\ (IsUpdate(h) /\ pc[h] = "stage" /\ pc'[h] # pc[h]) =>
               events' = Append(events, PrescribedEvent(cmd[h]))
          /\ (IsUpdate(h) /\ pc[h] = "read" /\ pc'[h] = "begin") =>
               found'[h] = Mutated(cmd[h], carts[cmd[h].cart_id])
          /\ (IsUpdate(h) /\ pc[h] = "repo_find" /\ pc'[h] = "stage") =>
               /\ txnState = "InProgress" /\ txnOwner = h
               /\ cmd[h].cart_id \in DOMAIN txnWrites
               /\ txnWrites[cmd[h].cart_id] = found[h]
     /\ Len(events') > Len(events) =>
          \E h \in Procs : IsUpdate(h) /\ pc[h] = "stage" /\ pc'[h] = "commit_txn"]_vars

\* A Remove has returned with success and its commit published the one
\* event it staged.
C21_Witness ==
  \E h \in Procs :
    /\ pc[h] = "done" /\ result[h] = "Ok" /\ cmd[h].kind = "Remove"
    /\ Len(published) = 1
    /\ published[1].by = h /\ published[1].outcome = "Ok"
    /\ published[1].event = PrescribedEvent(cmd[h])

\* The static mapping table: one destination per event type.
MappedDestination(variant) ==
  IF variant = "ProductAddedToCartEvent" THEN "product.added.to.cart"
  ELSE "product.removed.from.cart"

\* C22: publish takes the destination from the event's variant alone:
\* 'product.added.to.cart' for every ProductAddedToCart event and
\* 'product.removed.from.cart' for every ProductRemovedFromCart event,
\* whatever the product_id and the cart; one publish call is one send, and
\* the call reports Ok only if that send succeeded.
C22_DestinationByVariant ==
  /\ [](/\ \A p \in Products \cup {Empty} :
            /\ Destination(ProductAddedToCartEvent(p)) = "product.added.to.cart"
            /\ Destination(ProductRemovedFromCartEvent(p)) = "product.removed.from.cart"
        /\ \A i \in 1..Len(published) :
            published[i].destination = MappedDestination(published[i].event.variant))
  /\ [][published' # published =>
         \E h \in Procs :
           /\ pc[h] = "publish"
           /\ Len(published') = Len(published) + 1
           /\ SubSeq(published', 1, Len(published)) = published
           /\ LET sent == published'[Len(published')] IN
              /\ sent.by = h
              /\ sent.event = events[Len(event_results[h]) + 1]
              /\ sent.outcome # "Panic" =>
                   event_results'[h] = Append(event_results[h], sent.outcome)
              /\ sent.outcome = "Panic" => pc'[h] = "done" /\ result'[h] # "Ok"]_vars

\* Both kinds of event have been sent, each to its own destination.
C22_Witness ==
  \E i \in 1..Len(published) : \E j \in 1..Len(published) :
    /\ published[i].event.variant = "ProductAddedToCartEvent"
    /\ published[i].destination = "product.added.to.cart"
    /\ published[j].event.variant = "ProductRemovedFromCartEvent"
    /\ published[j].destination = "product.removed.from.cart"
    /\ published[i].outcome = "Ok" /\ published[j].outcome = "Err"

\* Invocation g has staged its event and its transaction is still open.
\* While it is open no other invocation can begin, update or stage, so the
\* event g staged is the last of the queue.
StagedUncommitted(g) ==
  /\ pc[g] = "commit_txn"
  /\ txnState = "InProgress" /\ txnOwner = g
  /\ IsUpdate(g) /\ events # <<>>

\* The commit of h sends the last event of the queue in this step.
PublishesLast(h) ==
  /\ pc[h] = "publish" /\ published' # published
  /\ Len(event_results[h]) + 1 = Len(events)

\* C23: under any interleaving of handlers sharing the unit of work, an
\* event is published only after the transaction of the update that
\* produced it has committed: no commit publishes an event staged by
\* another invocation whose transaction is still active.
C23_PublishOnlyCommittedEvents ==
  [][\A h \in Procs : \A g \in Procs \ {h} :
       ~(PublishesLast(h) /\ StagedUncommitted(g))]_vars

\* The commit of h lets go of the event-queue lock in this step.
ReleasesQueue(h) == eventsLock = h /\ eventsLock' = NoProc

\* C24: under any interleaving every staged event receives exactly one
\* publish attempt.  A commit that has attempted events leaves none of them
\* in the queue when it releases the lock, so that no later commit attempts
\* them again; and as each invocation stages at most one event, there are
\* never more attempts than invocations.
C24_OneAttemptPerEvent ==
  /\ [][\A h \in Procs :
         (ReleasesQueue(h) /\ (Len(event_results[h]) > 0 \/ published' # published)) =>
           events' = <<>>]_vars
  /\ [](Len(published) <= started)

\* No handler invocation is in progress.
Quiescent == \A h \in Procs : Idle(h)

\* C25: whenever no handler invocation is in progress the staged-event
\* queue is empty: every path on which a handler staged an event has had it
\* published or discarded by the time the handler finishes, also when the
\* transaction commit or a publish fails.
C25_QueueEmptyWhenQuiescent == Quiescent => events = <<>>

\* Positions between a handler's begin_transaction and the commit or
\* rollback that ends its transaction.
InsideTransaction == {"repo_write", "repo_find", "stage", "commit_txn", "rollback"}

\* C26: whenever no handler invocation is in progress, no transaction is
\* active on the shared session: a handler that began a transaction ends it
\* by a commit or a rollback on every path by which it finishes, so an open
\* transaction always belongs to an invocation still inside it and a later
\* begin_transaction is never rejected because of a finished handler.
C26_NoLeakedTransaction ==
  /\ Quiescent => txnState # "InProgress"
  /\ txnState = "InProgress" => txnOwner \in Procs /\ pc[txnOwner] \in InsideTransaction
  /\ \A h \in Procs :
       (pc[h] = "done" /\ result[h] = "PanicBegin") =>
         txnOwner \in Procs \ {h}

\* One invocation has rolled back and returned its error; a later one
\* began its own transaction, committed and returned.
C26_Witness ==
  \E h \in Procs : \E g \in Procs \ {h} :
    /\ Quiescent
    /\ result[h] = "ErrUpdate" /\ result[g] = "Ok" /\ cmd[g].kind = "Add"
    /\ txnOwner = g /\ txnState = "Committed"

\* C27: no handler waits for one of the two locks while it holds the other:
\* the holder of a lock can always take its next step, so there is no
\* deadlock, and under fair scheduling, with store and broker calls that
\* return, every started handler invocation eventually finishes.
C27_NoDeadlock ==
  /\ [](\A h \in Procs :
         /\ sessionLock = h => pc[h] = "repo_find" /\ eventsLock # h
                                /\ ENABLED RepositoryFind(h)
         /\ eventsLock = h => pc[h] = "publish" /\ sessionLock # h
                               /\ ENABLED (PublishMessage(h) \/ CommitFinish(h)))
  /\ \A h \in Procs : (~Idle(h)) ~> (pc[h] = "done")

\* One invocation waits for the event-queue lock that the other holds
\* inside its publish loop.
C27_Witness ==
  \E h \in Procs : \E g \in Procs \ {h} :
    /\ pc[h] = "publish" /\ eventsLock = h
    /\ pc[g] \in {"stage", "commit_events"}

\* Sum of product p's quantities over the carts of a collection.
RECURSIVE SumQuantity(_, _, _)
SumQuantity(docs, ids, p) ==
  IF ids = {} THEN 0
  ELSE LET c == CHOOSE x \in ids : TRUE IN
       (IF HasProduct(docs[c], p) THEN docs[c].products[p] ELSE 0)
         + SumQuantity(docs, ids \ {c}, p)

StoredQuantity(docs, p) == SumQuantity(docs, DOMAIN docs, p)

\* Messages the broker accepted that carry event e.
PublishedCount(e) ==
  Cardinality({i \in 1..Len(published) :
                 published[i].event = e /\ published[i].outcome = "Ok"})

\* Every invocation started so far has returned Ok, each on its own request
\* task, and the broker accepted every message: no store or broker call of
\* the execution has failed.
NoCallFails ==
  /\ started = Cardinality({h \in Procs : pc[h] = "done" /\ result[h] = "Ok"})
  /\ \A i \in 1..Len(published) : published[i].outcome = "Ok"

\* C28: in an execution in which no store or broker call fails, once every
\* handler has finished, for each product the number of published
\* ProductAddedToCart events minus the number of published
\* ProductRemovedFromCart events equals what the execution added to the sum
\* of the product's stored quantities over all carts.
C28_EventsAgreeWithStore ==
  (Quiescent /\ NoCallFails) =>
    \A p \in Products :
      PublishedCount(ProductAddedToCartEvent(p))
        - PublishedCount(ProductRemovedFromCartEvent(p))
      = StoredQuantity(carts, p) - StoredQuantity(StoredAtStartLive, p)

\* The sole caller is inside an Add or a Remove.
UpdateRunning == IsUpdate(Caller) /\ ~Idle(Caller)

\* Cart c is stored before and after the step with the same id, version,
\* creation timestamp and the same quantities of every product but p.
SameButQuantity(c, p) ==
  /\ carts'[c].id = carts[c].id
  /\ carts'[c].version = carts[c].version
  /\ carts'[c].created_at_utc = carts[c].created_at_utc
  /\ \A q \in Products \ {p} :
       /\ HasProduct(carts'[c], q) <=> HasProduct(carts[c], q)
       /\ HasProduct(carts[c], q) => carts'[c].products[q] = carts[c].products[q]

\* C29: an Add or a Remove of product p in cart c that runs with no
\* concurrent handler changes only the quantity of p in c: every step of it
\* keeps the set of stored cart ids, every other cart, and c's id, version,
\* creation timestamp and other products' quantities.
C29_UpdateChangesOneQuantity ==
  [][UpdateRunning =>
       /\ DOMAIN carts' = DOMAIN carts
       /\ \A c \in DOMAIN carts :
            IF c = cmd[Caller].cart_id
              THEN SameButQuantity(c, cmd[Caller].product_id)
              ELSE carts'[c] = carts[c]]_vars

\* An Add has returned having raised p1 in a cart that also holds p2,
\* beside another stored cart.
C29_Witness ==
  /\ Returned /\ cmd[Caller].kind = "Add" /\ cmd[Caller].cart_id = "c1"
  /\ DOMAIN carts = {"c1", "c2"}
  /\ HasProduct(carts["c1"], "p2")
  /\ carts["c1"].products["p1"] = 3

\* The commit call of h returns in this step, with Ok or with Err.
CommitReturns(h) ==
  /\ pc[h] = "publish" /\ commit_result[h] = "none"
  /\ commit_result'[h] \in {"Ok", "Err"}

\* The last n publish calls were made by h, for the n events of the queue
\* in the order in which they were staged.
AttemptedInOrder(h) ==
  LET n == Len(events) IN
  /\ Len(published) >= n
  /\ \A i \in 1..n :
       /\ published[Len(published) - n + i].by = h
       /\ published[Len(published) - n + i].event = events[i]

\* C30: within one commit call the staged events are attempted in the order
\* in which they were staged, and the call leaves the queue empty when it
\* returns, with success or with a publish failure.
C30_FifoAndEmptyOnReturn ==
  [][\A h \in Procs :
       CommitReturns(h) => AttemptedInOrder(h) /\ events' = <<>>]_vars

\* A commit has returned a publish failure after attempting two different
\* events, the first of them staged by an earlier invocation.
C30_Witness ==
  \E h \in Procs :
    /\ pc[h] = "done" /\ commit_result[h] = "Err" /\ events = <<>>
    /\ Len(event_results[h]) = 2
    /\ Len(published) = 2
    /\ published[1].by = h /\ published[2].by = h
    /\ published[1].event # published[2].event
====
